---- MODULE Spec2Model ----
(***************************************************************************)
(* Model of futunn.token.TokenManager (src/futunn/token.py): the token     *)
(* cache (csrf_token, quote_token), the coroutines get_tokens and          *)
(* refresh_tokens, which suspend at the single await of _fetch_tokens      *)
(* (the page GET), the synchronous invalidate, and the extraction of the   *)
(* two tokens from a response.                                             *)
(*                                                                         *)
(* A Python str is a sequence of one-character strings, so that the        *)
(* regular expressions of the extractors are matched character by          *)
(* character.  Python's None is a value that is no such sequence.          *)
(***************************************************************************)
EXTENDS Integers, Sequences, FiniteSets, TLC

\* ------------------------------------------------------------------ bounds
\* Number of asyncio tasks that share one TokenManager.
NumCallers == 2

\* Number of get_tokens() and refresh_tokens() calls that are tallied.
MaxCalls == 4

Callers == 1..NumCallers

\* ------------------------------------------------------------ Python values
None == <<"None">>

Truthy(s) == s # None /\ s # <<>>

\* `a or b` of Python for an Optional[str] a.
Or(a, b) == IF Truthy(a) THEN a ELSE b

\* ------------------------------------------------------- regular expressions
QuoteChars == {"\"", "'"}
SpaceChars == {" ", "\n", "\t"}
SepChars == {":", "="}
JoinChars == {"_", "-"}

LitCsrf == <<"c", "s", "r", "f">>
LitQuote == <<"q", "u", "o", "t", "e">>
LitToken == <<"t", "o", "k", "e", "n">>

NoMatch == <<"NoMatch">>

\* The literal lit stands in s at position i.
LitAt(s, i, lit) ==
    /\ i + Len(lit) - 1 <= Len(s)
    /\ \A k \in 1..Len(lit) : s[i + k - 1] = lit[k]

\* \s* from position i: the position after the longest run of white space.
RECURSIVE SkipSpace(_, _)
SkipSpace(s, i) ==
    IF i <= Len(s) /\ s[i] \in SpaceChars THEN SkipSpace(s, i + 1) ELSE i

\* [^"']+ from position i: the position after the longest run of characters
\* that are no quote character.
RECURSIVE SkipValue(_, _)
SkipValue(s, i) ==
    IF i <= Len(s) /\ s[i] \notin QuoteChars THEN SkipValue(s, i + 1) ELSE i

\* key[_-]?token["']\s*[:=]\s*["']([^"']+)["'] matched at position i of s:
\* group 1, or NoMatch.  Every quantifier of the pattern is followed by a
\* character class disjoint from its own, so the greedy choice is the only
\* one that can match.
MatchAt(key, s, i) ==
    IF ~LitAt(s, i, key) THEN NoMatch
    ELSE
    LET j0 == i + Len(key)
        j1 == IF j0 <= Len(s) /\ s[j0] \in JoinChars THEN j0 + 1 ELSE j0
    IN  IF ~LitAt(s, j1, LitToken) THEN NoMatch
        ELSE
        LET j2 == j1 + Len(LitToken)
        IN  IF ~(j2 <= Len(s) /\ s[j2] \in QuoteChars) THEN NoMatch
            ELSE
            LET j3 == SkipSpace(s, j2 + 1)
            IN  IF ~(j3 <= Len(s) /\ s[j3] \in SepChars) THEN NoMatch
                ELSE
                LET j4 == SkipSpace(s, j3 + 1)
                IN  IF ~(j4 <= Len(s) /\ s[j4] \in QuoteChars) THEN NoMatch
                    ELSE
                    LET j5 == SkipValue(s, j4 + 1)
                    IN  IF j5 > j4 + 1 /\ j5 <= Len(s) /\ s[j5] \in QuoteChars
                        THEN SubSeq(s, j4 + 1, j5 - 1)
                        ELSE NoMatch

\* re.search(pattern, s).group(1): the leftmost match, or NoMatch.
RECURSIVE SearchFrom(_, _, _)
SearchFrom(key, s, i) ==
    IF i > Len(s) THEN NoMatch
    ELSE LET m == MatchAt(key, s, i)
         IN  IF m # NoMatch THEN m ELSE SearchFrom(key, s, i + 1)

re_search(key, s) == SearchFrom(key, s, 1)

\* ------------------------------------------------------------------ strings
\* The literals returned when no token can be extracted.
CSRF_FALLBACK ==
    <<"i", "w", "t", "m", "C", "h", "E", "z", "i", "0", "i", "x",
      "w", "1", "8", "P", "9", "8", "3", "l", "5", "a", "i", "7">>
QUOTE_FALLBACK == <<"9", "9", "2", "2", "7", "e", "3", "4", "c", "9">>

\* Header values that are never parsed are kept whole.
STOCK_LIST_PAGE == <<"urls.STOCK_LIST_PAGE">>
DEFAULT_USER_AGENT == <<"constants.DEFAULT_USER_AGENT">>
ACCEPT_JSON == <<"application/json, text/plain, */*">>

\* ------------------------------------------------------------ the transport
\* Page bodies the site may answer with.
BodyPlain == <<"<", "h", "t", "m", "l", ">">>
BodyBoth ==
    <<"\"">> \o LitCsrf \o <<"_">> \o LitToken
        \o <<"\"", ":", " ", "\"", "a", "b", "c", "1", "2", "3", "\"", ",", " ", "\"">>
        \o LitQuote \o <<"_">> \o LitToken
        \o <<"\"", ":", " ", "\"", "x", "y", "z", "7", "8", "9", "\"">>
BodyOther ==
    LitQuote \o LitToken \o <<"'", "=", "'", "q", "2", "'", "\n">>
        \o LitCsrf \o <<"-">> \o LitToken \o <<"'", " ", "=", "\t", "\"", "c", "2", "'">>
BodyCsrfOnly ==
    LitCsrf \o LitToken \o <<"\"", ":", "\"", "\"", " ">>
        \o LitCsrf \o LitToken \o <<"\"", ":", "\"", "c", "3", "\"">>
BodyQuoteOnly ==
    LitCsrf \o <<"_", "_">> \o LitToken \o <<"\"", ":", "\"", "c", "4", "\"", " ">>
        \o LitQuote \o <<"-">> \o LitToken \o <<"\"", "=", "\"", "q", "3", "\"">>

Bodies == {BodyPlain, BodyBoth, BodyOther, BodyCsrfOnly, BodyQuoteOnly}

\* response.text of a body whose declared charset cannot decode it raises.
TextRaises == <<"TextRaises">>

\* Values of the x-csrf-token response header: absent, empty, present.
HeaderToken == <<"h", "d", "r", "1">>
CsrfHeaders == {None, <<>>, HeaderToken}

OkStatus == 200
ErrorStatuses == {403, 500}

\* What awaiting client.get(...) yields: a response, or httpx.RequestError
\* (connection failure, timeout, failure while reading the body).
RequestError == [kind |-> "RequestError"]

Response(status, header, text) ==
    [kind |-> "Response", status_code |-> status, x_csrf_token |-> header,
     text |-> text]

Responses ==
    {Response(OkStatus, h, t) : h \in CsrfHeaders, t \in Bodies \cup {TextRaises}}
        \cup {Response(st, None, BodyPlain) : st \in ErrorStatuses}

GetOutcomes == Responses \cup {RequestError}

\* The outcomes drawn while several tasks share the manager: one of each
\* kind, and successes that carry different token pairs.
SharedOutcomes ==
    {RequestError,
     Response(403, None, BodyPlain),
     Response(OkStatus, None, BodyBoth),
     Response(OkStatus, HeaderToken, BodyOther),
     Response(OkStatus, None, BodyPlain),
     Response(OkStatus, HeaderToken, TextRaises),
     Response(OkStatus, None, TextRaises)}

\* --------------------------------------------------------------- extraction
\* An extractor that raised instead of returning a string.
Raised == <<"Raised">>

\* Mutant: no fallback literal, the extractor returns None without a match.
FromText_NoFallback(key, response, fallback) ==
    IF response.text = TextRaises THEN Raised
    ELSE LET match == re_search(key, response.text)
         IN  IF match # NoMatch THEN match ELSE None

\* response.text, then re.search for the key, then the fallback literal.
FromText(key, response, fallback) ==
    IF response.text = TextRaises THEN Raised
    ELSE LET match == re_search(key, response.text)
         IN  IF match # NoMatch THEN match ELSE fallback

\* Mutant: the page content is searched before the response header.
_extract_csrf_token_BodyFirst(response) ==
    LET fromText == FromText(LitCsrf, response, None)
    IN  IF fromText \notin {None, Raised} THEN fromText
        ELSE IF Truthy(response.x_csrf_token) THEN response.x_csrf_token
        ELSE FromText(LitCsrf, response, CSRF_FALLBACK)

_extract_csrf_token(response) ==
    IF Truthy(response.x_csrf_token) THEN response.x_csrf_token
    ELSE FromText(LitCsrf, response, CSRF_FALLBACK)

\* Mutant: the pattern of the CSRF extractor, copied and not renamed.
_extract_quote_token_CsrfKey(response) ==
    FromText(LitCsrf, response, QUOTE_FALLBACK)

_extract_quote_token(response) ==
    FromText(LitQuote, response, QUOTE_FALLBACK)

HeaderNames == {"futu-x-csrf-token", "quote-token", "referer", "user-agent", "accept"}

\* Mutant: a header whose token is missing is left out of the map.
_build_headers_OmitMissing(csrf, quote) ==
    LET fixed == ("referer" :> STOCK_LIST_PAGE)
                     @@ ("user-agent" :> DEFAULT_USER_AGENT)
                     @@ ("accept" :> ACCEPT_JSON)
        withCsrf == IF Truthy(csrf) THEN ("futu-x-csrf-token" :> csrf) @@ fixed
                    ELSE fixed
    IN  IF Truthy(quote) THEN ("quote-token" :> quote) @@ withCsrf ELSE withCsrf

_build_headers(csrf, quote) ==
    ("futu-x-csrf-token" :> Or(csrf, <<>>))
        @@ ("quote-token" :> Or(quote, <<>>))
        @@ ("referer" :> STOCK_LIST_PAGE)
        @@ ("user-agent" :> DEFAULT_USER_AGENT)
        @@ ("accept" :> ACCEPT_JSON)

\* -------------------------------------------------------------------- state
VARIABLES
    csrf_token,      \* self.csrf_token: None or a str
    quote_token,     \* self.quote_token: None or a str
    _headers_cache,  \* self._headers_cache
    call,            \* call[c]: the call task c is suspended in, or Idle
    last,            \* the call of the manager that completed most recently
    origin,          \* the responses csrf_token and quote_token were taken from
    count            \* the tally of calls begun and GETs issued, when kept

vars == <<csrf_token, quote_token, _headers_cache, call, last, origin, count>>

Idle == [op |-> "idle"]
NoCall == [op |-> "none"]
NoOutcome == [kind |-> "none"]

\* The state machine's view of the two fields.
StateOf(csrf, quote) ==
    IF csrf = None /\ quote = None THEN "Unauthenticated"
    ELSE IF csrf # None /\ quote # None THEN "Authenticated"
    ELSE "Partial"

Awaiting(c) == call[c] # Idle

\* The call l is a get_tokens() made right after an invalidate(), by a single
\* caller.
FollowsInvalidate(l) == l.op = "get_tokens" /\ l.solo /\ l.pred.op = "invalidate"

\* What a later call remembers of the call that completed just before it;
\* fetch: what its GET yielded and the fields it left, kept of a get_tokens()
\* that followed an invalidate().
Brief(l) ==
    IF l = NoCall THEN NoCall
    ELSE [op |-> l.op, result |-> l.result, value |-> l.value, gets |-> l.gets,
          before |-> l.before, solo |-> l.solo, inval |-> l.inval,
          fetch |-> IF FollowsInvalidate(l)
                    THEN [outcome |-> l.outcome, after |-> l.after]
                    ELSE NoOutcome]

\* No call of the manager is in flight.
Quiet == \A d \in Callers : ~Awaiting(d)

\* A call begins.  solo: it overlaps no other call; pred: the call that
\* completed just before it, kept while the call is solo; inval: invalidate()
\* has run while the call was suspended and no call has begun since.
Begin(op, gets) ==
    [op |-> op, before |-> StateOf(csrf_token, quote_token), gets |-> gets,
     solo |-> Quiet, pred |-> IF Quiet THEN Brief(last) ELSE NoCall,
     inval |-> FALSE]

\* A call that began as b completes: it returns or raises (`result`) the
\* value `value`, after its GET, if any, yielded `outcome`.  after: the two
\* fields at that moment.
Complete(b, outcome, result, value) ==
    [op |-> b.op, before |-> b.before, gets |-> b.gets, solo |-> b.solo,
     pred |-> b.pred, inval |-> b.inval, outcome |-> outcome, result |-> result,
     value |-> value, after |-> <<csrf_token', quote_token'>>]

\* Every call in flight is overlapped by the call `op` that begins now.
Overlapped(op) ==
    [d \in Callers |->
        IF Awaiting(d)
        THEN [call[d] EXCEPT !.solo = FALSE, !.pred = NoCall,
                             !.inval = (op = "invalidate")]
        ELSE Idle]

\* The tally is kept in SpecCount only, and ends with MaxCalls calls.
NoCount == [on |-> FALSE, calls |-> 0, gets |-> 0]

MayCall == count.on => count.calls < MaxCalls

Tally(gets) ==
    IF count.on
    THEN [count EXCEPT !.calls = @ + 1, !.gets = @ + gets]
    ELSE count

NoOrigin == <<NoOutcome, NoOutcome>>

Fresh ==
    /\ csrf_token = None
    /\ quote_token = None
    /\ _headers_cache = None
    /\ call = [c \in Callers |-> Idle]
    /\ last = NoCall
    /\ origin = NoOrigin

Init == Fresh /\ count = NoCount

\* get_tokens() up to its first suspension, entered with the fields csrf and
\* quote: it awaits the page GET when a token is missing, and returns the
\* headers at once otherwise.
\* Mutant: the cache is never consulted.
NeedsFetch_Always(csrf, quote) == TRUE

\* Mutant: `and` for `or`, one token is taken for a filled cache.
NeedsFetch_BothMissing(csrf, quote) == csrf = None /\ quote = None

NeedsFetch(csrf, quote) == csrf = None \/ quote = None

EnterGetTokens(c, op, csrf, quote) ==
    IF NeedsFetch(csrf, quote)
    THEN /\ call' = [Overlapped(op) EXCEPT ![c] = Begin(op, 1)]
         /\ last' = last
         /\ count' = Tally(1)
    ELSE /\ call' = Overlapped(op)
         /\ last' = Complete(Begin(op, 0), NoOutcome, "return",
                             _build_headers(csrf, quote))
         /\ count' = Tally(0)

get_tokens(c) ==
    /\ ~Awaiting(c)
    /\ MayCall
    /\ UNCHANGED <<csrf_token, quote_token, _headers_cache, origin>>
    /\ EnterGetTokens(c, "get_tokens", csrf_token, quote_token)

\* Mutant: the cached tokens are not cleared before get_tokens().
refresh_tokens_NoClear(c) ==
    /\ ~Awaiting(c)
    /\ MayCall
    /\ UNCHANGED <<csrf_token, quote_token, _headers_cache, origin>>
    /\ EnterGetTokens(c, "refresh_tokens", csrf_token, quote_token)

refresh_tokens(c) ==
    /\ ~Awaiting(c)
    /\ MayCall
    /\ csrf_token' = None
    /\ quote_token' = None
    /\ origin' = NoOrigin
    /\ EnterGetTokens(c, "refresh_tokens", csrf_token', quote_token')
    /\ UNCHANGED _headers_cache

\* Mutant: only the header cache is dropped, the tokens stay.
invalidate_CacheOnly ==
    /\ UNCHANGED <<csrf_token, quote_token, origin, count>>
    /\ _headers_cache' = None
    /\ call' = Overlapped("invalidate")
    /\ last' = Complete(Begin("invalidate", 0), NoOutcome, "return", None)

\* Mutant: only the CSRF token is dropped.
invalidate_OneToken ==
    /\ csrf_token' = None
    /\ UNCHANGED <<quote_token, count>>
    /\ _headers_cache' = None
    /\ origin' = <<NoOutcome, origin[2]>>
    /\ call' = Overlapped("invalidate")
    /\ last' = Complete(Begin("invalidate", 0), NoOutcome, "return", None)

\* Mutant: the tokens are fetched again at once, in the background.
invalidate_Prefetch ==
    /\ csrf_token' = None
    /\ quote_token' = None
    /\ _headers_cache' = None
    /\ origin' = NoOrigin
    /\ call' = Overlapped("invalidate")
    /\ last' = Complete(Begin("invalidate", 0), NoOutcome, "return", None)
    /\ count' = IF count.on THEN [count EXCEPT !.gets = @ + 1] ELSE count

invalidate ==
    /\ csrf_token' = None
    /\ quote_token' = None
    /\ _headers_cache' = None
    /\ origin' = NoOrigin
    /\ call' = Overlapped("invalidate")
    /\ last' = Complete(Begin("invalidate", 0), NoOutcome, "return", None)
    /\ UNCHANGED count

\* _fetch_tokens() from the moment client.get(...) yields `outcome`, and the
\* rest of the suspended call: no await follows, so it runs in one step.
Resume(c, outcome) ==
    /\ Awaiting(c)
    /\ call' = [call EXCEPT ![c] = Idle]
    /\ UNCHANGED <<_headers_cache, count>>
    /\ IF outcome.kind = "RequestError"
       THEN \* except httpx.RequestError: raise TokenExpiredError
            /\ UNCHANGED <<csrf_token, quote_token, origin>>
            /\ last' = Complete(call[c], outcome, "TokenExpiredError", None)
       ELSE IF outcome.status_code # OkStatus
       THEN \* raise TokenExpiredError, which the except clause lets through
            /\ UNCHANGED <<csrf_token, quote_token, origin>>
            /\ last' = Complete(call[c], outcome, "TokenExpiredError", None)
       ELSE LET csrf == _extract_csrf_token(outcome)
                quote == _extract_quote_token(outcome)
            IN  IF csrf = Raised
                THEN \* the first assignment never happens
                     /\ UNCHANGED <<csrf_token, quote_token, origin>>
                     /\ last' = Complete(call[c], outcome, "Exception", None)
                ELSE IF quote = Raised
                THEN \* the first assignment has happened, the second has not
                     /\ csrf_token' = csrf
                     /\ UNCHANGED quote_token
                     /\ origin' = <<outcome, origin[2]>>
                     /\ last' = Complete(call[c], outcome, "Exception", None)
                ELSE /\ csrf_token' = csrf
                     /\ quote_token' = quote
                     /\ origin' = <<outcome, outcome>>
                     /\ last' = Complete(call[c], outcome, "return",
                                         _build_headers(csrf_token', quote_token'))

\* Several tasks share the manager.
Next ==
    \/ \E c \in Callers : get_tokens(c)
    \/ \E c \in Callers : refresh_tokens(c)
    \/ invalidate
    \/ \E c \in Callers : \E outcome \in SharedOutcomes : Resume(c, outcome)

Spec == Init /\ [][Next]_vars

\* One task uses the manager, and the page may answer with any response.
Caller == CHOOSE c \in Callers : TRUE

NextSeq ==
    \/ get_tokens(Caller)
    \/ refresh_tokens(Caller)
    \/ invalidate
    \/ \E outcome \in GetOutcomes : Resume(Caller, outcome)

SpecSeq == Init /\ [][NextSeq]_vars

\* One task keeps calling get_tokens(), and the page keeps answering, time
\* and again with a 200 response whose body can be read.
ReadableOutcomes ==
    {r \in SharedOutcomes \ {RequestError} :
        r.status_code = OkStatus /\ r.text # TextRaises}

NextLive ==
    \/ get_tokens(Caller)
    \/ refresh_tokens(Caller)
    \/ invalidate
    \/ \E outcome \in SharedOutcomes : Resume(Caller, outcome)

SpecLive ==
    /\ Init /\ [][NextLive]_vars
    /\ WF_vars(get_tokens(Caller))
    /\ SF_vars(\E outcome \in ReadableOutcomes : Resume(Caller, outcome))

\* Several tasks share the manager, and the calls and the GETs are tallied.
InitCount == Fresh /\ count = [on |-> TRUE, calls |-> 0, gets |-> 0]

SpecCount == InitCount /\ [][Next]_vars

\* ------------------------------------------------------------------ claims
\* The call completed most recently is a get_tokens() or refresh_tokens().
LastIsFetchCall == last.op \in {"get_tokens", "refresh_tokens"}

\* The GET of the call completed most recently was answered with a response.
LastGotResponse == last # NoCall /\ last.outcome.kind = "Response"

\* C1: once a get_tokens(), refresh_tokens() or invalidate() call has returned
\* or raised, csrf_token and quote_token are both set or both None.
C1_BothOrNeither ==
    last # NoCall => ((csrf_token = None) <=> (quote_token = None))

\* C2 as stated: two consecutive successful get_tokens() calls of a single
\* caller, nothing in between, issue exactly one GET in total, and the second
\* returns the headers of the first.
ConsecutiveGets ==
    /\ last.op = "get_tokens" /\ last.result = "return" /\ last.solo
    /\ last.pred.op = "get_tokens" /\ last.pred.result = "return" /\ last.pred.solo

C2_ExactlyOneGet ==
    ConsecutiveGets =>
        /\ last.pred.gets + last.gets = 1
        /\ last.value = last.pred.value

\* C2 as amended: the second of two such calls issues no GET and returns the
\* headers of the first; the two issue one GET in total when the manager was
\* not Authenticated before the first call, and none when it was.
C2_SecondCallCached ==
    ConsecutiveGets =>
        /\ last.gets = 0
        /\ last.value = last.pred.value
        /\ last.pred.gets + last.gets =
               IF last.pred.before = "Authenticated" THEN 0 ELSE 1

C2_Witness ==
    ConsecutiveGets /\ last.pred.gets = 1 /\ last.pred.before = "Unauthenticated"

\* C3: at most one GET to the token-source page is in flight at any moment.
C3_SingleFlight ==
    Cardinality({c \in Callers : Awaiting(c) /\ call[c].gets = 1}) <= 1

\* C4: a page GET answered with a status other than 200 makes the call raise
\* TokenExpiredError, and both tokens are None when the call has ended.
C4_ErrorStatusLeavesUnauthenticated ==
    (LastIsFetchCall /\ LastGotResponse /\ last.outcome.status_code # OkStatus) =>
        /\ last.result = "TokenExpiredError"
        /\ last.after = <<None, None>>

\* C5: a get_tokens() or refresh_tokens() call that does not return raises
\* TokenExpiredError, whatever failed during the fetch.
C5_OnlyTokenExpiredError ==
    (LastIsFetchCall /\ last.result # "return") => last.result = "TokenExpiredError"

\* The call completed most recently returned headers.
LastReturned == LastIsFetchCall /\ last.result = "return"

\* C6: every refresh_tokens() call issues a GET, also from the Authenticated
\* state, and the headers it returns carry the tokens extracted from the
\* response to that GET.
C6_RefreshRefetches ==
    /\ \A c \in Callers :
           (Awaiting(c) /\ call[c].op = "refresh_tokens") => call[c].gets = 1
    /\ last.op = "refresh_tokens" =>
           /\ last.gets = 1
           /\ last.outcome # NoOutcome
           /\ last.result = "return" =>
                  /\ last.value["futu-x-csrf-token"] = _extract_csrf_token(last.outcome)
                  /\ last.value["quote-token"] = _extract_quote_token(last.outcome)

\* A refresh from the Authenticated state returned tokens other than those
\* the call before it had returned.
C6_Witness ==
    /\ last.op = "refresh_tokens" /\ last.result = "return"
    /\ last.before = "Authenticated" /\ last.solo
    /\ last.pred.op = "get_tokens" /\ last.pred.result = "return"
    /\ last.value # last.pred.value

\* C7: the get_tokens() call that follows an invalidate(), with a single
\* caller and no fetch in flight, issues exactly one GET.
AfterInvalidate(b) == b.op = "get_tokens" /\ b.solo /\ b.pred.op = "invalidate"

C7_InvalidateThenFetch ==
    /\ \A c \in Callers : (Awaiting(c) /\ AfterInvalidate(call[c])) => call[c].gets = 1
    /\ (last # NoCall /\ AfterInvalidate(last)) =>
           (last.gets = 1 /\ last.outcome # NoOutcome)

\* The tokens were cached when invalidate() was called, and the next
\* get_tokens() has fetched and returned.
C7_Witness ==
    /\ last # NoCall /\ AfterInvalidate(last)
    /\ last.pred.before = "Authenticated"
    /\ last.result = "return"

\* C8: the headers a get_tokens() or refresh_tokens() call returns carry two
\* non-empty tokens, those the manager holds at the moment of the return.
C8_ReturnsValidPair ==
    LastReturned =>
        /\ last.value["futu-x-csrf-token"] # <<>>
        /\ last.value["quote-token"] # <<>>
        /\ last.value["futu-x-csrf-token"] = last.after[1]
        /\ last.value["quote-token"] = last.after[2]

\* A call returned from the cache while the GET of another call was in flight.
C8_Witness ==
    /\ LastReturned /\ last.gets = 0 /\ ~last.solo
    /\ \E c \in Callers : Awaiting(c)

\* C9: a 200 response with a non-empty x-csrf-token header stores the header
\* value as the CSRF token, whatever the body holds.
HasCsrfHeader(response) ==
    /\ response.kind = "Response"
    /\ response.status_code = OkStatus
    /\ Truthy(response.x_csrf_token)

C9_HeaderFirst ==
    (LastIsFetchCall /\ HasCsrfHeader(last.outcome)) =>
        /\ last.after[1] = last.outcome.x_csrf_token
        /\ last.result = "return" =>
               last.value["futu-x-csrf-token"] = last.outcome.x_csrf_token

\* The body of the response holds a csrf_token pattern with another value.
C9_Witness ==
    /\ LastReturned /\ HasCsrfHeader(last.outcome)
    /\ re_search(LitCsrf, last.outcome.text) \notin {NoMatch, last.outcome.x_csrf_token}

\* C10: a 200 response without CSRF header whose body holds neither pattern
\* makes get_tokens() return, Authenticated, with the two fallback literals;
\* either token falls back alone when only its own pattern is missing.
Readable(response) ==
    /\ response.kind = "Response"
    /\ response.status_code = OkStatus
    /\ response.text # TextRaises

NoCsrfSource(response) ==
    ~Truthy(response.x_csrf_token) /\ re_search(LitCsrf, response.text) = NoMatch

NoQuoteSource(response) == re_search(LitQuote, response.text) = NoMatch

C10_Fallback ==
    (LastIsFetchCall /\ Readable(last.outcome)) =>
        /\ (NoCsrfSource(last.outcome) \/ NoQuoteSource(last.outcome)) =>
               /\ last.result = "return"
               /\ StateOf(last.after[1], last.after[2]) = "Authenticated"
        /\ NoCsrfSource(last.outcome) =>
               /\ last.value["futu-x-csrf-token"] = CSRF_FALLBACK
               /\ last.after[1] = CSRF_FALLBACK
        /\ NoQuoteSource(last.outcome) =>
               /\ last.value["quote-token"] = QUOTE_FALLBACK
               /\ last.after[2] = QUOTE_FALLBACK

C10_Witness ==
    /\ last.op = "get_tokens" /\ last.result = "return"
    /\ Readable(last.outcome)
    /\ last.outcome.x_csrf_token = None
    /\ NoCsrfSource(last.outcome) /\ NoQuoteSource(last.outcome)
    /\ last.value["futu-x-csrf-token"] = CSRF_FALLBACK
    /\ last.value["quote-token"] = QUOTE_FALLBACK

\* C11: a 200 response without CSRF header whose body holds a csrf_token key
\* with quoted value V1 and a quote_token key with quoted value V2 makes
\* get_tokens() return V1 as CSRF header and V2 as quote-token header.
Abc123 == <<"a", "b", "c", "1", "2", "3">>
Xyz789 == <<"x", "y", "z", "7", "8", "9">>

BothInBody(response) ==
    /\ Readable(response)
    /\ ~Truthy(response.x_csrf_token)
    /\ re_search(LitCsrf, response.text) # NoMatch
    /\ re_search(LitQuote, response.text) # NoMatch

C11_BodyExtraction ==
    (LastIsFetchCall /\ BothInBody(last.outcome)) =>
        /\ last.result = "return"
        /\ last.value["futu-x-csrf-token"] = re_search(LitCsrf, last.outcome.text)
        /\ last.value["quote-token"] = re_search(LitQuote, last.outcome.text)
        /\ last.value["futu-x-csrf-token"] # CSRF_FALLBACK
        /\ last.value["quote-token"] # QUOTE_FALLBACK
        /\ last.outcome.text = BodyBoth =>
               /\ last.value["futu-x-csrf-token"] = Abc123
               /\ last.value["quote-token"] = Xyz789
        /\ last.outcome.text = BodyOther =>
               /\ last.value["futu-x-csrf-token"] = <<"c", "2">>
               /\ last.value["quote-token"] = <<"q", "2">>

\* The scenario of the specification: "csrf_token": "abc123", "quote_token": "xyz789".
C11_Witness ==
    /\ last.op = "get_tokens" /\ last.result = "return"
    /\ last.outcome.kind = "Response"
    /\ last.outcome.x_csrf_token = None
    /\ last.outcome.text = BodyBoth
    /\ last.value["futu-x-csrf-token"] = Abc123
    /\ last.value["quote-token"] = Xyz789

\* C12: the header map built from the two fields holds exactly the five keys
\* in every state, and a missing token is the empty string, never left out.
FiveKeys == {"futu-x-csrf-token", "quote-token", "referer", "user-agent", "accept"}

C12_CompleteShape ==
    LET headers == _build_headers(csrf_token, quote_token)
    IN  /\ DOMAIN headers = FiveKeys
        /\ headers["futu-x-csrf-token"] = IF csrf_token = None THEN <<>> ELSE csrf_token
        /\ headers["quote-token"] = IF quote_token = None THEN <<>> ELSE quote_token
        /\ LastReturned => DOMAIN last.value = FiveKeys

\* A state in which one token is set and the other is missing.
C12_Witness ==
    /\ csrf_token # None /\ quote_token = None
    /\ _build_headers(csrf_token, quote_token)["quote-token"] = <<>>
    /\ _build_headers(csrf_token, quote_token)["futu-x-csrf-token"] = csrf_token

\* C13: refresh_tokens() does what invalidate() followed by get_tokens()
\* does: for the same outcome of the GET, the same number of GETs, the same
\* headers or error and the same two fields afterwards; a refresh_tokens()
\* that fails from the Authenticated state leaves the manager Unauthenticated.
\* The two sequences are compared when one follows the other.
RefreshAfterInvalidateGet ==
    /\ last.op = "refresh_tokens" /\ last.solo
    /\ last.pred.op = "get_tokens" /\ last.pred.fetch # NoOutcome
    /\ last.pred.fetch.outcome = last.outcome

C13_SameAsInvalidateGet ==
    RefreshAfterInvalidateGet =>
        /\ last.gets = last.pred.gets
        /\ last.result = last.pred.result
        /\ last.value = last.pred.value
        /\ last.after = last.pred.fetch.after

C13_FailedRefreshClears ==
    (last.op = "refresh_tokens" /\ last.solo /\ last.before = "Authenticated"
        /\ last.result # "return") => last.after = <<None, None>>

C13_RefreshIsInvalidateGet == C13_SameAsInvalidateGet /\ C13_FailedRefreshClears

\* C14: when invalidate() runs while a fetch is awaiting its response, the
\* first get_tokens() call begun after it still issues a GET, also when that
\* fetch has completed in between, and returns the tokens of its own response.
FirstGetAfterRacedInvalidate ==
    /\ last.op = "get_tokens" /\ last.solo
    /\ last.pred.op \in {"get_tokens", "refresh_tokens"}
    /\ last.pred.inval

C14_InvalidateNotUndone ==
    FirstGetAfterRacedInvalidate =>
        /\ last.gets = 1
        /\ last.result = "return" =>
               /\ last.value["futu-x-csrf-token"] = _extract_csrf_token(last.outcome)
               /\ last.value["quote-token"] = _extract_quote_token(last.outcome)

\* C15: a get_tokens() or refresh_tokens() call issues at most one GET, and
\* exactly one when it fails; construction and invalidate() issue none; the
\* GETs issued never outnumber the get_tokens() and refresh_tokens() calls
\* begun.
InFlight == {c \in Callers : Awaiting(c)}

C15_NoRetryNoBackground ==
    count.on =>
        /\ count.gets <= count.calls
        /\ Cardinality(InFlight) <= count.gets
        /\ \A c \in InFlight : call[c].gets = 1
        /\ LastIsFetchCall =>
               /\ last.gets \in {0, 1}
               /\ last.gets = 1 <=> last.outcome # NoOutcome
               /\ last.result # "return" => last.gets = 1
        /\ last.op = "invalidate" => (last.gets = 0 /\ last.outcome = NoOutcome)
        /\ count.calls = 0 => count.gets = 0

\* Calls served from the cache and a call that failed: fewer GETs than calls.
C15_Witness ==
    /\ count.on /\ count.calls >= 3
    /\ 1 <= count.gets /\ count.gets < count.calls
    /\ LastIsFetchCall /\ last.result = "TokenExpiredError" /\ last.gets = 1

\* C16 as stated: a get_tokens() whose GET is answered 200 returns headers
\* and ends Authenticated, whatever calls failed before it.
C16_Any200Recovers ==
    (last.op = "get_tokens" /\ LastGotResponse /\ last.outcome.status_code = OkStatus) =>
        /\ last.result = "return"
        /\ StateOf(last.after[1], last.after[2]) = "Authenticated"

\* Without the responses whose body cannot be read, the recovery C16 describes
\* takes place: a get_tokens() whose GET is answered 200 with a body that
\* can be read returns headers and ends Authenticated, whatever calls failed
\* before it; and when get_tokens() is called again and again and the page
\* keeps answering so, the manager is Authenticated again and again.
RecoversOnReadable200 ==
    (last.op = "get_tokens" /\ Readable(last.outcome)) =>
        /\ last.result = "return"
        /\ StateOf(last.after[1], last.after[2]) = "Authenticated"

C16_Recovers ==
    /\ []RecoversOnReadable200
    /\ []<>(StateOf(csrf_token, quote_token) = "Authenticated")

\* A call that succeeds right after a call that failed and left one token.
C16_RecoveredFromPartial ==
    /\ last.op = "get_tokens" /\ Readable(last.outcome) /\ last.result = "return"
    /\ last.solo /\ last.before = "Partial"
    /\ last.pred.op = "get_tokens" /\ last.pred.result # "return"

\* An invalidate() completes in this step.
InvalidateReturns == last' # last /\ last'.op = "invalidate"

\* C17: a freshly constructed manager is Unauthenticated with no cached
\* headers, and invalidate() from any state sets both tokens to None, returns
\* without raising, issues no GET and leaves the calls in flight as they were;
\* an invalidate() that follows an invalidate() changes none of the fields.
C17_InvalidateIsLocal ==
    /\ StateOf(csrf_token, quote_token) = "Unauthenticated" /\ _headers_cache = None
    /\ [][InvalidateReturns =>
            /\ csrf_token' = None /\ quote_token' = None /\ _headers_cache' = None
            /\ last'.result = "return" /\ last'.value = None
            /\ last'.gets = 0 /\ last'.outcome = NoOutcome
            /\ \A c \in Callers : Awaiting(c)' <=> Awaiting(c)
            /\ last.op = "invalidate" =>
                    <<csrf_token', quote_token', _headers_cache'>> =
                        <<csrf_token, quote_token, _headers_cache>>]_vars

\* invalidate() has run twice in a row, the first time on an Authenticated
\* manager.
C17_Witness ==
    /\ last.op = "invalidate" /\ last.solo /\ last.before = "Unauthenticated"
    /\ last.pred.op = "invalidate" /\ last.pred.before = "Authenticated"
    /\ StateOf(csrf_token, quote_token) = "Unauthenticated"

\* Whenever both tokens are set, they were taken from the same response.
SameResponse ==
    (csrf_token # None /\ quote_token # None) => origin[1] = origin[2]

\* When no call is in flight and the last get_tokens() or refresh_tokens()
\* returned, the manager is Authenticated.
AllReturnedAuthenticated ==
    (Quiet /\ LastReturned) => StateOf(csrf_token, quote_token) = "Authenticated"

\* C18: under any interleaving of get_tokens() and refresh_tokens() calls,
\* both tokens, when set, come from one response, and once the calls have
\* returned the manager is Authenticated.
C18_PairCoherent == SameResponse /\ AllReturnedAuthenticated

====
